---- MODULE Spec2Model ----
(***************************************************************************)
(* Model of image_tiler.py: the layout computation                         *)
(* (calculate_sheet_counts), the tile cropping loop (crop_tiles), the page *)
(* emission loop (save_tiles_to_pdf) and the order in which main performs  *)
(* them.  Python's float arithmetic (int / int, float * int, int(), ceil)  *)
(* is modelled bit for bit as IEEE-754 binary64 with round-to-nearest-even *)
(* on significands kept as bit sequences, because TLC's integers are too   *)
(* narrow to hold a 53-bit significand.                                    *)
(***************************************************************************)
EXTENDS Integers, Sequences, FiniteSets, TLC

(***************************************************************************)
(* Bounds of the model.                                                    *)
(***************************************************************************)
MaxImg == 3
MaxSheets == 2
MaxMargin == 1
MaxPaper == 3
MaxDpi == 2

(***************************************************************************)
(* binary64 arithmetic.  A float is [sgn, bits, exp]: bits is the 53-bit   *)
(* significand, most significant bit first and equal to 1, exp the weight  *)
(* of its last bit, so the value is sgn * Int(bits) * 2^exp.  Zero has an  *)
(* empty significand.                                                      *)
(***************************************************************************)
MantissaBits == 53

Abs(x) == IF x < 0 THEN -x ELSE x

Sign(x) == IF x < 0 THEN -1 ELSE 1

FZero == [sgn |-> 1, bits |-> <<>>, exp |-> 0]

\* The significand is produced and multiplied eight bits at a time.
LimbBits == 8

LimbBase == 256

RECURSIVE Pow2(_)
Pow2(n) == IF n = 0 THEN 1 ELSE 2 * Pow2(n - 1)

RECURSIVE BitsToInt(_, _, _)
BitsToInt(bits, n, acc) ==
    IF n = 0 \/ bits = <<>> THEN acc
    ELSE BitsToInt(Tail(bits), n - 1, 2 * acc + Head(bits))

RECURSIVE IntToBits(_, _)
IntToBits(k, acc) ==
    IF k = 0 THEN acc ELSE IntToBits(k \div 2, <<k % 2>> \o acc)

\* The eight bits of a limb, and the limbs of a bit sequence whose length
\* is a multiple of eight.
BitsOfLimb(v) == [i \in 1..LimbBits |-> (v \div Pow2(LimbBits - i)) % 2]

LimbsOfBits(bits) ==
    [j \in 1..(Len(bits) \div LimbBits) |->
        BitsToInt(SubSeq(bits, LimbBits * (j - 1) + 1, LimbBits * j),
                  LimbBits, 0)]

AnyOne(bits, from) == \E i \in from..Len(bits) : bits[i] = 1

StripZeros(bits) ==
    IF ~AnyOne(bits, 1) THEN <<>>
    ELSE LET first == CHOOSE i \in 1..Len(bits) :
                          bits[i] = 1 /\ \A j \in 1..(i - 1) : bits[j] = 0
         IN  SubSeq(bits, first, Len(bits))

\* bits + 1, one bit longer when the carry runs off the top.
Increment(bits) ==
    IF \A i \in 1..Len(bits) : bits[i] = 1
    THEN <<1>> \o [i \in 1..Len(bits) |-> 0]
    ELSE LET z == CHOOSE i \in 1..Len(bits) :
                      bits[i] = 0 /\ \A j \in (i + 1)..Len(bits) : bits[j] = 1
         IN  [i \in 1..Len(bits) |->
                 IF i < z THEN bits[i] ELSE IF i = z THEN 1 ELSE 0]

\* Round an exact positive value Int(bits) * 2^exp, with sticky telling
\* whether nonzero bits lie below bits, to 53 bits, ties to even.
RoundToDouble(sgn, bits, exp, sticky) ==
    LET n     == Len(bits)
        drop  == n - MantissaBits
        kept  == SubSeq(bits, 1, MantissaBits)
        guard == bits[MantissaBits + 1] = 1
        rest  == sticky \/ AnyOne(bits, MantissaBits + 2)
        up    == guard /\ (rest \/ kept[MantissaBits] = 1)
        inc   == Increment(kept)
    IN  IF n <= MantissaBits
        THEN [sgn |-> sgn,
              bits |-> bits \o [i \in 1..(MantissaBits - n) |-> 0],
              exp |-> exp - (MantissaBits - n)]
        ELSE IF ~up THEN [sgn |-> sgn, bits |-> kept, exp |-> exp + drop]
        ELSE IF Len(inc) = MantissaBits
             THEN [sgn |-> sgn, bits |-> inc, exp |-> exp + drop]
             ELSE [sgn |-> sgn, bits |-> SubSeq(inc, 1, MantissaBits),
                   exp |-> exp + drop + 1]

\* Scale a / b (a, b > 0) by a power of two so that b <= a < 2 * b.
RECURSIVE Normalise(_, _, _)
Normalise(a, b, e) ==
    IF a < b THEN Normalise(2 * a, b, e - 1)
    ELSE IF a >= 2 * b THEN Normalise(a, 2 * b, e + 1)
    ELSE [a |-> a, b |-> b, e |-> e]

\* n further limbs of the quotient r / b (r < b) by long division.
RECURSIVE LongDiv(_, _, _, _)
LongDiv(r, b, n, acc) ==
    IF n = 0 THEN [bits |-> acc, rem |-> r]
    ELSE LongDiv((r * LimbBase) % b, b, n - 1,
                 acc \o BitsOfLimb((r * LimbBase) \div b))

\* The leading bit and seven limbs: 57 bits, enough to round to 53.
QuotientLimbs == 7

\* Python's a / b on ints, b # 0: the correctly rounded quotient.
TrueDiv(a, b) ==
    IF a = 0 THEN FZero
    ELSE LET nm == Normalise(Abs(a), Abs(b), 0)
             q  == LongDiv(nm.a - nm.b, nm.b, QuotientLimbs, <<1>>)
         IN  RoundToDouble(Sign(a) * Sign(b), q.bits,
                           nm.e - QuotientLimbs * LimbBits, q.rem # 0)

\* The exact product of a limb sequence and k, as bits.
RECURSIVE MulLimbs(_, _, _, _, _)
MulLimbs(limbs, i, k, carry, acc) ==
    IF i = 0 THEN IntToBits(carry, acc)
    ELSE LET t == limbs[i] * k + carry
         IN  MulLimbs(limbs, i - 1, k, t \div LimbBase,
                      BitsOfLimb(t % LimbBase) \o acc)

\* The 53-bit significand padded at the top to whole limbs.
PadToLimbs(bits) ==
    [i \in 1..((LimbBits - (Len(bits) % LimbBits)) % LimbBits) |-> 0] \o bits

\* Python's x * k, x a float and k an int converted exactly to a float.
FloatMulInt(x, k) ==
    IF x.bits = <<>> \/ k = 0 THEN FZero
    ELSE LET limbs == LimbsOfBits(PadToLimbs(x.bits))
         IN  RoundToDouble(x.sgn * Sign(k),
                           StripZeros(MulLimbs(limbs, Len(limbs), Abs(k),
                                               0, <<>>)),
                           x.exp, FALSE)

\* floor(|x|) and whether |x| has a fractional part.
FloorAbs(x) ==
    IF x.bits = <<>> THEN 0
    ELSE IF x.exp >= 0 THEN BitsToInt(x.bits, MantissaBits, 0) * Pow2(x.exp)
    ELSE IF MantissaBits + x.exp <= 0 THEN 0
    ELSE BitsToInt(x.bits, MantissaBits + x.exp, 0)

HasFraction(x) ==
    /\ x.bits # <<>>
    /\ x.exp < 0
    /\ \/ MantissaBits + x.exp <= 0
       \/ AnyOne(x.bits, MantissaBits + x.exp + 1)

\* Python's int(x): truncation toward zero.
FloatToInt(x) == x.sgn * FloorAbs(x)

\* Python's math.ceil(x).
FloatCeil(x) ==
    IF x.sgn = 1
    THEN FloorAbs(x) + (IF HasFraction(x) THEN 1 ELSE 0)
    ELSE -FloorAbs(x)

(***************************************************************************)
(* The program state.  cfg is the CONFIG block of the module together with *)
(* the file found at INPUT_FILE; it is fixed for the run.  Lengths are in  *)
(* half inches, so that 8.5 in is the integer 17 and every product below   *)
(* is exact in binary64.  A hint is <<>> for None and <<n>> for the int n. *)
(***************************************************************************)
VARIABLES cfg, pc, img, tile_w_px, tile_h_px, plan, log, row, col, tiles,
          pages, err

vars == <<cfg, pc, img, tile_w_px, tile_h_px, plan, log, row, col, tiles,
          pages, err>>

None == <<>>

Hints == {None} \cup {<<n>> : n \in 0..MaxSheets}

\* Python truthiness of a hint: None and 0 are false.
Truthy(h) == h # None /\ h[1] # 0

NUM_SHEETS_WIDE == cfg.sheets_wide

NUM_SHEETS_HIGH == cfg.sheets_high

\* apply orientation
PAGE_SIZE_IN ==
    IF cfg.orientation = "landscape"
    THEN <<cfg.paper[2], cfg.paper[1]>>
    ELSE cfg.paper

\* int((PAGE_SIZE_IN[i] - 2 * MARGIN_IN) * DPI), lengths in half inches:
\* the float product is exact and int() truncates toward zero.
TilePx(i) ==
    LET n == (PAGE_SIZE_IN[i] - 2 * cfg.margin) * cfg.dpi
    IN  Sign(n) * (Abs(n) \div 2)

NoPlan == [kind |-> "none"]

Raise(e) == [kind |-> e]

Return(sw, sh, fw, fh) ==
    [kind |-> "plan", sheets_w |-> sw, sheets_h |-> sh,
     full_w |-> fw, full_h |-> fh]

\* Variant: the aspect-derived dimension rounded to the nearest integer.
AspectScaled_rounded(num, den, full) ==
    Sign(full) * ((2 * num * Abs(full) + den) \div (2 * den))

\* full_h = int(img_h / img_w * full_w), and its mirror image.
AspectScaled(num, den, full) == FloatToInt(FloatMulInt(TrueDiv(num, den), full))

\* Variant: int(full / tile_px) in place of math.ceil.
SheetsFor_floor(full, tile_px) == FloatToInt(TrueDiv(full, tile_px))

\* math.ceil(full / tile_px), tile_px # 0.
SheetsFor(full, tile_px) == FloatCeil(TrueDiv(full, tile_px))

\* Variant: the aspect ratio inverted, img_w / img_h * full_w.
WidthOnly_inverted(img_w, img_h, tw, th) ==
    LET full_w == tw * NUM_SHEETS_WIDE[1]
        full_h == FloatToInt(FloatMulInt(TrueDiv(img_w, img_h), full_w))
    IN  IF th = 0 THEN Raise("ZeroDivisionError")
        ELSE Return(NUM_SHEETS_WIDE[1],
                    FloatCeil(TrueDiv(full_h, th)), full_w, full_h)

\* if NUM_SHEETS_WIDE and not NUM_SHEETS_HIGH:
WidthOnly(img_w, img_h, tw, th) ==
    LET full_w == tw * NUM_SHEETS_WIDE[1]
        full_h == AspectScaled(img_h, img_w, full_w)
    IN  IF th = 0 THEN Raise("ZeroDivisionError")
        ELSE Return(NUM_SHEETS_WIDE[1], SheetsFor(full_h, th), full_w, full_h)

\* if NUM_SHEETS_HIGH and not NUM_SHEETS_WIDE:
HeightOnly(img_w, img_h, tw, th) ==
    LET full_h == th * NUM_SHEETS_HIGH[1]
        full_w == AspectScaled(img_w, img_h, full_h)
    IN  IF tw = 0 THEN Raise("ZeroDivisionError")
        ELSE Return(SheetsFor(full_w, tw), NUM_SHEETS_HIGH[1], full_w, full_h)

\* if NUM_SHEETS_WIDE and NUM_SHEETS_HIGH:
BothHints(img_w, img_h, tw, th) ==
    Return(NUM_SHEETS_WIDE[1], NUM_SHEETS_HIGH[1],
           tw * NUM_SHEETS_WIDE[1], th * NUM_SHEETS_HIGH[1])

\* Variant: a single sheet as the default layout instead of the raise.
NoHints_default(img_w, img_h, tw, th) == Return(1, 1, tw, th)

\* raise ValueError("Set at least one of NUM_SHEETS_WIDE or NUM_SHEETS_HIGH")
NoHints(img_w, img_h, tw, th) == Raise("ValueError")

\* Variant: the first test reads "if NUM_SHEETS_WIDE:" alone.
calculate_sheet_counts_wide_first(img_w, img_h, tw, th) ==
    IF Truthy(NUM_SHEETS_WIDE)
    THEN WidthOnly(img_w, img_h, tw, th)
    ELSE IF Truthy(NUM_SHEETS_HIGH)
    THEN HeightOnly(img_w, img_h, tw, th)
    ELSE NoHints(img_w, img_h, tw, th)

calculate_sheet_counts(img_w, img_h, tw, th) ==
    IF Truthy(NUM_SHEETS_WIDE) /\ ~Truthy(NUM_SHEETS_HIGH)
    THEN WidthOnly(img_w, img_h, tw, th)
    ELSE IF Truthy(NUM_SHEETS_HIGH) /\ ~Truthy(NUM_SHEETS_WIDE)
    THEN HeightOnly(img_w, img_h, tw, th)
    ELSE IF Truthy(NUM_SHEETS_WIDE) /\ Truthy(NUM_SHEETS_HIGH)
    THEN BothHints(img_w, img_h, tw, th)
    ELSE NoHints(img_w, img_h, tw, th)

\* Variant: the vertical stride taken from the tile width.
CropBox_strideTypo(r, c, tw, th) ==
    LET left  == c * tw
        upper == r * tw
    IN  [row |-> r, col |-> c, left |-> left, upper |-> upper,
         right |-> left + tw, lower |-> upper + th]

\* Variant: the crop box clamped to the resized canvas.
CropBox_clamped(r, c, tw, th) ==
    LET left  == c * tw
        upper == r * th
        right == left + tw
        lower == upper + th
    IN  [row |-> r, col |-> c, left |-> left, upper |-> upper,
         right |-> IF right > plan.full_w THEN plan.full_w ELSE right,
         lower |-> IF lower > plan.full_h THEN plan.full_h ELSE lower]

\* The crop box of the tile at (r, c).
CropBox(r, c, tw, th) ==
    LET left  == c * tw
        upper == r * th
    IN  [row |-> r, col |-> c, left |-> left, upper |-> upper,
         right |-> left + tw, lower |-> upper + th]

(***************************************************************************)
(* Configurations.  The grid ranges over small pages, margins, resolutions *)
(* and images; FloatCases adds runs in which the binary64 product falls    *)
(* just below an integer (13 / 3 * 27 is 116.99999999999999); PrintCases   *)
(* adds the shipped CONFIG block (8.5 x 11 in landscape, 300 dpi, 3 x 2)   *)
(* and the US-letter portrait poster two sheets wide, on a 3000 x 2000     *)
(* image.                                                                  *)
(***************************************************************************)
GridConfigs ==
    [file_ok : BOOLEAN, file_w : 1..MaxImg, file_h : 1..MaxImg,
     paper : (1..MaxPaper) \X (1..MaxPaper),
     orientation : {"portrait", "landscape"},
     margin : 0..MaxMargin, dpi : 1..MaxDpi,
     sheets_wide : Hints, sheets_high : Hints]

FloatCases ==
    [file_ok : {TRUE}, file_w : {3, 13}, file_h : {3, 13},
     paper : {<<9, 29>>}, orientation : {"portrait"},
     margin : {0}, dpi : {2},
     sheets_wide : {None, <<3>>}, sheets_high : {None, <<3>>}]

PrintCases ==
    [file_ok : {TRUE}, file_w : {3000}, file_h : {2000},
     paper : {<<17, 22>>}, orientation : {"portrait", "landscape"},
     margin : {0}, dpi : {300},
     sheets_wide : {None, <<2>>, <<3>>}, sheets_high : {None, <<2>>}]

InitWith(configs) ==
    /\ cfg \in configs
    /\ pc = "start"
    /\ img = <<0, 0>>
    /\ tile_w_px = 0
    /\ tile_h_px = 0
    /\ plan = NoPlan
    /\ log = <<>>
    /\ row = 0
    /\ col = 0
    /\ tiles = <<>>
    /\ pages = <<>>
    /\ err = "none"

Init == InitWith(GridConfigs \cup FloatCases)

InitPrint == InitWith(GridConfigs \cup FloatCases \cup PrintCases)

(***************************************************************************)
(* main, one action per statement; the two loops take one action per       *)
(* iteration.                                                              *)
(***************************************************************************)
\* img = Image.open(INPUT_FILE); img_w, img_h = img.size
OpenImage ==
    /\ pc = "start"
    /\ IF cfg.file_ok
       THEN /\ img' = <<cfg.file_w, cfg.file_h>>
            /\ log' = Append(log, "open")
            /\ pc' = "opened"
            /\ err' = err
       ELSE /\ pc' = "failed"
            /\ err' = "OSError"
            /\ UNCHANGED <<img, log>>
    /\ UNCHANGED <<cfg, tile_w_px, tile_h_px, plan, row, col, tiles, pages>>

\* tile_w_px = int(...); tile_h_px = int(...)
ComputeTileSize ==
    /\ pc = "opened"
    /\ tile_w_px' = TilePx(1)
    /\ tile_h_px' = TilePx(2)
    /\ pc' = "sized"
    /\ UNCHANGED <<cfg, img, plan, log, row, col, tiles, pages, err>>

\* sheets_w, sheets_h, full_w, full_h = calculate_sheet_counts(...)
PlanLayout ==
    /\ pc = "sized"
    /\ LET r == calculate_sheet_counts(img[1], img[2], tile_w_px, tile_h_px)
       IN  IF r.kind = "plan"
           THEN /\ plan' = r
                /\ pc' = "planned"
                /\ err' = err
           ELSE /\ pc' = "failed"
                /\ err' = r.kind
                /\ plan' = plan
    /\ UNCHANGED <<cfg, img, tile_w_px, tile_h_px, log, row, col, tiles, pages>>

\* resized = img.resize((full_w, full_h), Image.LANCZOS); Pillow rejects a
\* size that is not positive in both dimensions.
Resize ==
    /\ pc = "planned"
    /\ IF plan.full_w > 0 /\ plan.full_h > 0
       THEN /\ log' = Append(log, "resize")
            /\ pc' = "cropping"
            /\ err' = err
       ELSE /\ pc' = "failed"
            /\ err' = "ResizeError"
            /\ log' = log
    /\ UNCHANGED <<cfg, img, tile_w_px, tile_h_px, plan, row, col, tiles, pages>>

\* Variant: the loops nested the other way round, columns outermost.
CropTile_colMajor ==
    /\ pc = "cropping"
    /\ row < plan.sheets_h
    /\ col < plan.sheets_w
    /\ tiles' = Append(tiles, CropBox(row, col, tile_w_px, tile_h_px))
    /\ IF row + 1 < plan.sheets_h
       THEN row' = row + 1 /\ col' = col
       ELSE IF col + 1 < plan.sheets_w
       THEN row' = 0 /\ col' = col + 1
       ELSE row' = plan.sheets_h /\ col' = 0
    /\ UNCHANGED <<cfg, pc, img, tile_w_px, tile_h_px, plan, log, pages, err>>

\* One iteration of the inner loop of crop_tiles.
CropTile ==
    /\ pc = "cropping"
    /\ row < plan.sheets_h
    /\ col < plan.sheets_w
    /\ tiles' = Append(tiles, CropBox(row, col, tile_w_px, tile_h_px))
    /\ IF col + 1 < plan.sheets_w
       THEN col' = col + 1 /\ row' = row
       ELSE col' = 0 /\ row' = row + 1
    /\ UNCHANGED <<cfg, pc, img, tile_w_px, tile_h_px, plan, log, pages, err>>

\* return tiles; then pdf = canvas.Canvas(OUTPUT_PDF, ...)
CropReturn ==
    /\ pc = "cropping"
    /\ row >= plan.sheets_h \/ plan.sheets_w <= 0
    /\ log' = Append(log, "canvas")
    /\ pc' = "saving"
    /\ UNCHANGED <<cfg, img, tile_w_px, tile_h_px, plan, row, col, tiles,
                   pages, err>>

\* for tile in tiles: pdf.drawImage(...); pdf.showPage()
ShowPage ==
    /\ pc = "saving"
    /\ Len(pages) < Len(tiles)
    /\ pages' = Append(pages, tiles[Len(pages) + 1])
    /\ UNCHANGED <<cfg, pc, img, tile_w_px, tile_h_px, plan, log, row, col,
                   tiles, err>>

\* pdf.save()
SavePdf ==
    /\ pc = "saving"
    /\ Len(pages) = Len(tiles)
    /\ log' = Append(log, "save")
    /\ pc' = "done"
    /\ UNCHANGED <<cfg, img, tile_w_px, tile_h_px, plan, row, col, tiles,
                   pages, err>>

Next ==
    \/ OpenImage
    \/ ComputeTileSize
    \/ PlanLayout
    \/ Resize
    \/ CropTile
    \/ CropReturn
    \/ ShowPage
    \/ SavePdf

Spec == Init /\ [][Next]_vars

SpecPrint == InitPrint /\ [][Next]_vars

(***************************************************************************)
(* Vocabulary of the properties.                                           *)
(***************************************************************************)
HasPlan == plan.kind = "plan"

PositiveTiles == tile_w_px > 0 /\ tile_h_px > 0

WidthCase == Truthy(NUM_SHEETS_WIDE) /\ ~Truthy(NUM_SHEETS_HIGH)

HeightCase == Truthy(NUM_SHEETS_HIGH) /\ ~Truthy(NUM_SHEETS_WIDE)

BothCase == Truthy(NUM_SHEETS_WIDE) /\ Truthy(NUM_SHEETS_HIGH)

NoHintCase == ~Truthy(NUM_SHEETS_WIDE) /\ ~Truthy(NUM_SHEETS_HIGH)

Cropped == pc \in {"saving", "done"}

\* The exact ceiling of a / b for a >= 0, b > 0.
CeilDiv(a, b) == (a + b - 1) \div b

\* Pixel (x, y) lies in the crop box t.
Covers(t, x, y) ==
    t.left <= x /\ x < t.right /\ t.upper <= y /\ y < t.lower

(***************************************************************************)
(* C1.  As stated: every returned plan has fullW = sheetsWide * tileW and  *)
(* fullH = sheetsHigh * tileH, in all three hint cases.                    *)
(***************************************************************************)
C1_ExactMultipleAlways ==
    (HasPlan /\ PositiveTiles) =>
        /\ plan.full_w = plan.sheets_w * tile_w_px
        /\ plan.full_h = plan.sheets_h * tile_h_px

(***************************************************************************)
(* C1, amended.  With both hints the canvas is the exact multiple in both  *)
(* dimensions.  With one hint only the hinted dimension is the exact       *)
(* multiple; the derived dimension fits in the derived sheet count with    *)
(* less than one tile to spare:                                            *)
(* (sheets - 1) * tile < full <= sheets * tile.                            *)
(***************************************************************************)
C1_ExactMultipleOfHinted ==
    (HasPlan /\ PositiveTiles) =>
        /\ BothCase =>
            /\ plan.full_w = plan.sheets_w * tile_w_px
            /\ plan.full_h = plan.sheets_h * tile_h_px
        /\ WidthCase =>
            /\ plan.full_w = plan.sheets_w * tile_w_px
            /\ (plan.sheets_h - 1) * tile_h_px < plan.full_h
            /\ plan.full_h <= plan.sheets_h * tile_h_px
        /\ HeightCase =>
            /\ plan.full_h = plan.sheets_h * tile_h_px
            /\ (plan.sheets_w - 1) * tile_w_px < plan.full_w
            /\ plan.full_w <= plan.sheets_w * tile_w_px

\* A width-hint plan whose height leaves a remainder tile.
C1_Witness ==
    /\ HasPlan /\ PositiveTiles /\ WidthCase
    /\ plan.full_h > 0
    /\ plan.full_h < plan.sheets_h * tile_h_px

(***************************************************************************)
(* C2.  With both hints set the plan is the hints and the exact products   *)
(* tileW * sheetsWide and tileH * sheetsHigh, whatever the image's size.   *)
(***************************************************************************)
C2_BothHintsExact ==
    (HasPlan /\ BothCase) =>
        /\ plan.sheets_w = NUM_SHEETS_WIDE[1]
        /\ plan.sheets_h = NUM_SHEETS_HIGH[1]
        /\ plan.full_w = tile_w_px * NUM_SHEETS_WIDE[1]
        /\ plan.full_h = tile_h_px * NUM_SHEETS_HIGH[1]

\* A both-hints plan whose canvas does not have the image's aspect ratio.
C2_Witness ==
    /\ HasPlan /\ BothCase /\ PositiveTiles
    /\ img[1] * plan.full_h # img[2] * plan.full_w

(***************************************************************************)
(* C3.  As stated: with one hint the derived dimension is the aspect-      *)
(* scaled value rounded to the nearest integer (within half a pixel of the *)
(* exact value), and the derived sheet count is its ceiling over the tile  *)
(* size.                                                                   *)
(***************************************************************************)
C3_RoundedToNearest ==
    (HasPlan /\ PositiveTiles) =>
        /\ WidthCase =>
            /\ plan.full_w = tile_w_px * NUM_SHEETS_WIDE[1]
            /\ 2 * Abs(plan.full_h * img[1] - img[2] * plan.full_w) <= img[1]
            /\ plan.sheets_h = CeilDiv(plan.full_h, tile_h_px)
        /\ HeightCase =>
            /\ plan.full_h = tile_h_px * NUM_SHEETS_HIGH[1]
            /\ 2 * Abs(plan.full_w * img[2] - img[1] * plan.full_h) <= img[2]
            /\ plan.sheets_w = CeilDiv(plan.full_w, tile_w_px)

\* The poster of the example: 3000 x 2000 image, 2550 x 3300 tile, two wide.
ExamplePoster ==
    /\ img = <<3000, 2000>>
    /\ tile_w_px = 2550 /\ tile_h_px = 3300
    /\ NUM_SHEETS_WIDE = <<2>> /\ ~Truthy(NUM_SHEETS_HIGH)

(***************************************************************************)
(* C3, amended.  With one hint the hinted dimension is tile size times the *)
(* hint and the other is the aspect-scaled value truncated toward zero as  *)
(* computed in double precision: the floor of the exact value, or one less *)
(* when the exact value is an integer that the double product falls short  *)
(* of.  The derived sheet count is the ceiling of that dimension over the  *)
(* tile size, and the example poster gets the plan (2, 2, 5100, 3400).     *)
(***************************************************************************)
C3_TruncatedTowardZero ==
    (HasPlan /\ PositiveTiles) =>
        /\ WidthCase =>
            LET exact == img[2] * plan.full_w
            IN  /\ plan.full_w = tile_w_px * NUM_SHEETS_WIDE[1]
                /\ plan.full_h <= exact \div img[1]
                /\ plan.full_h >= (exact \div img[1]) - 1
                /\ exact % img[1] # 0 => plan.full_h = exact \div img[1]
                /\ plan.sheets_h = CeilDiv(plan.full_h, tile_h_px)
        /\ HeightCase =>
            LET exact == img[1] * plan.full_h
            IN  /\ plan.full_h = tile_h_px * NUM_SHEETS_HIGH[1]
                /\ plan.full_w <= exact \div img[2]
                /\ plan.full_w >= (exact \div img[2]) - 1
                /\ exact % img[2] # 0 => plan.full_w = exact \div img[2]
                /\ plan.sheets_w = CeilDiv(plan.full_w, tile_w_px)
        /\ ExamplePoster => plan = Return(2, 2, 5100, 3400)

\* The example poster has been planned.
C3_Witness == HasPlan /\ ExamplePoster /\ plan.full_h = 3400

(***************************************************************************)
(* C4.  With one hint the derived canvas keeps the image's aspect ratio to *)
(* within one pixel: |fullH * imgW - imgH * fullW| <= imgW for a width     *)
(* hint and |fullW * imgH - imgW * fullH| <= imgH for a height hint.       *)
(***************************************************************************)
C4_AspectWithinOnePixel ==
    (HasPlan /\ PositiveTiles) =>
        /\ WidthCase =>
            Abs(plan.full_h * img[1] - img[2] * plan.full_w) <= img[1]
        /\ HeightCase =>
            Abs(plan.full_w * img[2] - img[1] * plan.full_h) <= img[2]

\* A width-hint plan a whole pixel short of the exact aspect-scaled height.
C4_Witness ==
    /\ HasPlan /\ PositiveTiles /\ WidthCase
    /\ img[2] * plan.full_w - plan.full_h * img[1] = img[1]

(***************************************************************************)
(* C5.  crop_tiles produces one tile for each (row, col) with              *)
(* 0 <= row < sheetsHigh and 0 <= col < sheetsWide, each once, the tile of *)
(* (row, col) at index row * sheetsWide + col, sheetsWide * sheetsHigh     *)
(* tiles in all; save_tiles_to_pdf emits one page per tile in that order.  *)
(***************************************************************************)
C5_RowMajorTilesAndPages ==
    /\ \A i \in 1..Len(tiles) :
        /\ tiles[i].row = (i - 1) \div plan.sheets_w
        /\ tiles[i].col = (i - 1) % plan.sheets_w
    /\ Cropped =>
        /\ \A r \in 0..(plan.sheets_h - 1) : \A c \in 0..(plan.sheets_w - 1) :
            /\ r * plan.sheets_w + c + 1 <= Len(tiles)
            /\ tiles[r * plan.sheets_w + c + 1].row = r
            /\ tiles[r * plan.sheets_w + c + 1].col = c
        /\ Len(tiles) = Cardinality((0..(plan.sheets_h - 1))
                                        \X (0..(plan.sheets_w - 1)))
        /\ (plan.sheets_w >= 0 /\ plan.sheets_h >= 0) =>
            Len(tiles) = plan.sheets_w * plan.sheets_h
        /\ Len(pages) <= Len(tiles)
        /\ pages = SubSeq(tiles, 1, Len(pages))
    /\ pc = "done" => pages = tiles

\* A finished run over a grid with several rows and several columns.
C5_Witness ==
    /\ pc = "done"
    /\ plan.sheets_w >= 2 /\ plan.sheets_h >= 2
    /\ Len(pages) = plan.sheets_w * plan.sheets_h

(***************************************************************************)
(* C6.  The crop boxes, restricted to the resized canvas                   *)
(* [0, fullW) x [0, fullH), partition it: every canvas pixel lies in       *)
(* exactly one tile's box.                                                 *)
(***************************************************************************)
C6_TilesPartitionCanvas ==
    (pc = "saving" /\ pages = <<>> /\ PositiveTiles) =>
        \A x \in 0..(plan.full_w - 1) : \A y \in 0..(plan.full_h - 1) :
            Cardinality({i \in 1..Len(tiles) : Covers(tiles[i], x, y)}) = 1

\* All tiles cropped from a canvas whose last row of boxes overhangs it.
C6_Witness ==
    /\ pc = "saving" /\ pages = <<>> /\ PositiveTiles
    /\ Len(tiles) >= 4
    /\ plan.full_h < plan.sheets_h * tile_h_px

(***************************************************************************)
(* C7.  As stated: when both hints are absent or zero the error is raised  *)
(* before any image I/O: the image is never opened, nothing is resized and *)
(* no document is created.                                                 *)
(***************************************************************************)
C7_NoImageIO == NoHintCase => log = <<>>

(***************************************************************************)
(* C7, amended.  When both hints are absent or zero the source image is    *)
(* opened first; the ValueError is then raised before any resize, crop or  *)
(* document creation, so the run's only I/O is the opening of the image.   *)
(***************************************************************************)
C7_RaisedAfterOpenOnly ==
    NoHintCase =>
        /\ log \in {<<>>, <<"open">>}
        /\ plan = NoPlan
        /\ tiles = <<>> /\ pages = <<>>
        /\ pc \in {"start", "opened", "sized", "failed"}
        /\ err = "ValueError" => log = <<"open">>
        /\ (pc = "failed" /\ cfg.file_ok) => err = "ValueError"

\* The ValueError has been raised, the image having been opened.
C7_Witness == NoHintCase /\ err = "ValueError" /\ log = <<"open">>

(***************************************************************************)
(* C8.  When the tile width or height is <= 0 the run fails with the       *)
(* configuration error in every hint case: no plan is returned and no      *)
(* tiles or pages are produced.                                            *)
(***************************************************************************)
C8_NonPositiveTileRejected ==
    (pc \notin {"start", "opened"} /\ ~PositiveTiles) =>
        /\ plan = NoPlan
        /\ tiles = <<>> /\ pages = <<>>
        /\ pc \in {"sized", "failed"}
        /\ pc = "failed" => err = "ValueError"

(***************************************************************************)
(* C9.  As stated: every crop box is clamped to the canvas, right <= fullW *)
(* and lower <= fullH for every tile.                                      *)
(***************************************************************************)
C9_BoxesClamped ==
    (HasPlan /\ PositiveTiles) =>
        \A i \in 1..Len(tiles) :
            tiles[i].right <= plan.full_w /\ tiles[i].lower <= plan.full_h

(***************************************************************************)
(* C9, amended.  crop_tiles does not clamp: every crop box is exactly      *)
(* tileW x tileH, and when a single-hint plan's canvas height (width) is   *)
(* not a multiple of the tile size the boxes of the final row (column)     *)
(* start inside the canvas and end beyond it.                              *)
(***************************************************************************)
C9_BoxesNominalSize ==
    (HasPlan /\ PositiveTiles) =>
        \A i \in 1..Len(tiles) :
            /\ tiles[i].right - tiles[i].left = tile_w_px
            /\ tiles[i].lower - tiles[i].upper = tile_h_px
            /\ (plan.full_h % tile_h_px # 0
                    /\ tiles[i].row = plan.sheets_h - 1) =>
                tiles[i].upper < plan.full_h /\ tiles[i].lower > plan.full_h
            /\ (plan.full_w % tile_w_px # 0
                    /\ tiles[i].col = plan.sheets_w - 1) =>
                tiles[i].left < plan.full_w /\ tiles[i].right > plan.full_w

\* A tile of the final row whose box ends below the canvas.
C9_Witness ==
    /\ HasPlan /\ PositiveTiles /\ WidthCase
    /\ plan.full_h % tile_h_px # 0
    /\ \E i \in 1..Len(tiles) :
        tiles[i].row = plan.sheets_h - 1 /\ tiles[i].lower > plan.full_h

(***************************************************************************)
(* C10.  For positive image and tile sizes and at least one positive hint  *)
(* the plan has sheetsWide >= 1, sheetsHigh >= 1, fullW >= 1, fullH >= 1   *)
(* and every tile's box meets the canvas.                                  *)
(***************************************************************************)
C10_NonEmptyLayout ==
    (HasPlan /\ PositiveTiles) =>
        /\ plan.sheets_w >= 1 /\ plan.sheets_h >= 1
        /\ plan.full_w >= 1 /\ plan.full_h >= 1
        /\ (plan.sheets_h - 1) * tile_h_px < plan.full_h
        /\ (plan.sheets_w - 1) * tile_w_px < plan.full_w

====
